---- MODULE Spec2Model ----
(***************************************************************************)
(* File upload service: the upload route creates a file record and queues  *)
(* a BullMQ job; the worker of services/fileProcessor.js runs the job      *)
(* processor, which writes the file's status and extracted data, and the   *)
(* queue retries a failed job with exponential backoff.                    *)
(***************************************************************************)
EXTENDS Integers, Sequences, FiniteSets, Bags, TLC

\* ---- bounds of the model ----
MaxFiles == 2          \* upload requests that create a file record
MaxDbFaults == 1       \* prisma.file.update calls that reject
MaxCrashes == 2        \* worker process crashes (SpecCrash only)
MaxUsers == 2          \* user accounts (SpecHttp only registers the second)
MaxLen == 2            \* bytes in an uploaded file (SpecDigest only)

\* ---- program constants ----
attempts == 3                  \* defaultJobOptions.attempts
backoffDelay == 1000           \* defaultJobOptions.backoff.delay
concurrencyTest == 1           \* concurrency when NODE_ENV === 'test'
concurrencyDefault == 5        \* concurrency otherwise
maxStalledCount == 1           \* BullMQ worker default, not overridden

Envs == {"test", "production"}

\* contents the uploaded file may hold on disk (byte sequences)
Contents == {<<104, 105>>}

VARIABLES
  env,         \* process.env.NODE_ENV
  running,     \* the worker's main loop runs (autorun, or worker.run())
  files,       \* prisma file table: id -> [status, extractedData]
  disk,        \* what the file's storagePath holds: id -> [exists, bytes]
  pending,     \* upload requests between prisma.file.create and queue.add
  responses,   \* HTTP status answered for the upload of each file record
  jobs,        \* BullMQ jobs: id -> job
  wait,        \* the queue's wait list, oldest first
  processing,  \* the worker's running processor invocations (a bag)
  terminalWrites, \* per file: writes of status processed or failed so far
  dbFaults,    \* prisma.file.update calls that have rejected so far
  crashes,     \* number of worker process crashes so far
  users,       \* prisma user table: the ids of the registered users
  owner,       \* file.userId of each file record
  http         \* the last request answered, with its response

vars == <<env, running, files, disk, pending, responses, jobs, wait,
          processing, terminalWrites, dbFaults, crashes, users, owner, http>>

\* ---- values ----
NoData == [kind |-> "null", hash |-> 0, size |-> 0, error |-> ""]
ResultData(h, n) == [kind |-> "result", hash |-> h, size |-> n, error |-> ""]
ErrorData(m) == [kind |-> "error", hash |-> 0, size |-> 0, error |-> m]

\* an Authorization header: none, one that does not start with 'Bearer ',
\* or a bearer token whose payload names userId and which jwt.verify accepts
\* or rejects (signature, expiry)
NoHeader == [scheme |-> "none", userId |-> 0, verifies |-> FALSE]
Headers ==
  {NoHeader, [scheme |-> "basic", userId |-> 0, verifies |-> FALSE]}
    \cup [scheme : {"bearer"}, userId : 1..MaxUsers, verifies : BOOLEAN]

\* a response without file data, and the state of http before any request
NoBody == [id |-> 0, status |-> "", extractedData |-> NoData]
NoRequest == [route |-> "none", header |-> NoHeader, id |-> 0, status |-> 0,
              body |-> NoBody]

\* a processor invocation as the worker starts it on job j
NewRun(j) == [job |-> j, pc |-> "update_processing", error |-> "none",
              result |-> NoData, updateError |-> FALSE]

\* error.message of the error an attempt caught
ErrorMessage(e) ==
  CASE e = "read" -> "File processing failed: ENOENT"
    [] e = "db" -> "Record update failed"
    [] OTHER -> ""

RECURSIVE Pow2(_)
Pow2(n) == IF n <= 0 THEN 1 ELSE 2 * Pow2(n - 1)

\* createHash('sha256').update(fileContent).digest('hex'), at byte width:
\* a deterministic fold of the bytes and their count
RECURSIVE Fold(_, _)
Fold(h, B) == IF B = << >> THEN h ELSE Fold((h * 31 + Head(B) + 1) % 256, Tail(B))
Sha256(B) == Fold((106 + Len(B)) % 256, B)

\* concurrency option of the worker
concurrency == IF env = "test" THEN concurrencyTest ELSE concurrencyDefault

\* backoff of type 'exponential': delay before the retry that follows the
\* n-th finished attempt
Backoff(n) == Pow2(n - 1) * backoffDelay

Runs == BagToSet(processing)
JobIds == 1..Len(jobs)
FileIds == 1..Len(files)
ActiveJobs == {j \in JobIds : jobs[j].state = "active"}

Init ==
  /\ env \in Envs
  /\ running = (env # "test")
  /\ files = << >>
  /\ disk = << >>
  /\ pending = {}
  /\ responses = << >>
  /\ jobs = << >>
  /\ wait = << >>
  /\ processing = EmptyBag
  /\ terminalWrites = << >>
  /\ dbFaults = 0
  /\ crashes = 0
  /\ users = {1}
  /\ owner = << >>
  /\ http = NoRequest

\* worker.run() called by hand where autorun is off
Run ==
  /\ ~running
  /\ running' = TRUE
  /\ UNCHANGED <<env, files, disk, pending, responses, jobs, wait, processing,
                 terminalWrites, dbFaults, crashes, users, owner, http>>

\* the handler submitting the job for the id the record is going to get,
\* before prisma.file.create has run
UploadCreateJobFirst(u, B, e) ==
  /\ Len(files) < MaxFiles
  /\ Len(jobs) < MaxFiles
  /\ jobs' = Append(jobs, [fileId |-> Len(files) + 1, state |-> "wait",
                           attemptsStarted |-> 0, attemptsMade |-> 0,
                           delay |-> 0, lastBackoff |-> 0,
                           stalledCounter |-> 0])
  /\ wait' = Append(wait, Len(jobs) + 1)
  /\ UNCHANGED <<env, running, files, owner, disk, pending, responses,
                 processing, terminalWrites, dbFaults, crashes, users>>

\* POST /files/upload, the handler's first half, req.user.id being u: the
\* record is created with status uploaded; e tells whether the stored file
\* is still at its path when the job runs
UploadCreate(u, B, e) ==
  /\ Len(files) < MaxFiles
  /\ files' = Append(files, [status |-> "uploaded", extractedData |-> NoData])
  /\ owner' = Append(owner, u)
  /\ disk' = Append(disk, [exists |-> e, bytes |-> B])
  /\ pending' = pending \cup {Len(files) + 1}
  /\ responses' = Append(responses, 0)
  /\ terminalWrites' = Append(terminalWrites, 0)
  /\ UNCHANGED <<env, running, jobs, wait, processing, dbFaults, crashes, users>>

NewJob(f) == [fileId |-> f, state |-> "wait", attemptsStarted |-> 0,
              attemptsMade |-> 0, delay |-> 0, lastBackoff |-> 0,
              stalledCounter |-> 0]

\* the job added with { lifo: true }: it goes to the head of the wait list
UploadEnqueueLifo(f) ==
  /\ f \in pending
  /\ jobs' = Append(jobs, NewJob(f))
  /\ wait' = <<Len(jobs) + 1>> \o wait
  /\ pending' = pending \ {f}
  /\ responses' = [responses EXCEPT ![f] = 201]
  /\ UNCHANGED <<env, running, files, disk, processing, terminalWrites,
                 dbFaults, crashes, users, owner, http>>

\* POST /files/upload, second half: addFileProcessingJob, then 201
UploadEnqueue(f) ==
  /\ f \in pending
  /\ jobs' = Append(jobs, NewJob(f))
  /\ wait' = Append(wait, Len(jobs) + 1)
  /\ pending' = pending \ {f}
  /\ responses' = [responses EXCEPT ![f] = 201]
  /\ UNCHANGED <<env, running, files, disk, processing, terminalWrites,
                 dbFaults, crashes, users, owner, http>>

\* queue.add rejects and the rejection is swallowed: the route answers 201
UploadEnqueueFailSwallowed(f) ==
  /\ f \in pending
  /\ pending' = pending \ {f}
  /\ responses' = [responses EXCEPT ![f] = 201]
  /\ UNCHANGED <<env, running, files, disk, jobs, wait, processing,
                 terminalWrites, dbFaults, crashes, users, owner, http>>

\* queue.add rejects: the route answers 500, the record stays
UploadEnqueueFail(f) ==
  /\ f \in pending
  /\ pending' = pending \ {f}
  /\ responses' = [responses EXCEPT ![f] = 500]
  /\ UNCHANGED <<env, running, files, disk, jobs, wait, processing,
                 terminalWrites, dbFaults, crashes, users, owner, http>>

\* ---- the worker (new Worker('fileProcessing', processor, opts)) ----

\* the worker fetches another job only while fewer than `concurrency`
\* processor invocations are running
CanFetchNoCap == TRUE
CanFetch == BagCardinality(processing) < concurrency

\* taking the next job removes it from the wait list in the same step
DequeuePeek(w) == w
Dequeue(w) == Tail(w)

\* the invocations that hold job j, and their number
RunsOf(j) == {r \in Runs : r.job = j}
Holders(j) == BagCardinality([r \in RunsOf(j) |-> CopiesIn(r, processing)])
RunOf(j) == CHOOSE r \in Runs : r.job = j

Replace(r, q) == (processing (-) SetToBag({r})) (+) SetToBag({q})
Remove(r) == processing (-) SetToBag({r})

\* the worker takes the oldest waiting job and starts the processor on it
\* (attemptsStarted is capped, which no reachable state of Spec exceeds)
Claim ==
  /\ running
  /\ CanFetch
  /\ wait # << >>
  /\ LET j == Head(wait)
     IN /\ jobs[j].attemptsStarted <= attempts
        /\ wait' = Dequeue(wait)
        /\ jobs' = [jobs EXCEPT ![j].state = "active",
                                ![j].attemptsStarted = @ + 1]
        /\ processing' = processing (+) SetToBag({NewRun(j)})
  /\ UNCHANGED <<env, running, files, disk, pending, responses, terminalWrites,
                 dbFaults, crashes, users, owner, http>>

FileOf(r) == jobs[r.job].fileId

\* await prisma.file.update({ status: 'processing' }) resolves
UpdateProcessingOk(r) ==
  /\ r.pc = "update_processing"
  /\ files' = [files EXCEPT ![FileOf(r)].status = "processing"]
  /\ processing' = Replace(r, [r EXCEPT !.pc = "process_file"])
  /\ UNCHANGED <<env, running, disk, pending, responses, jobs, wait,
                 terminalWrites, dbFaults, crashes, users, owner, http>>

\* the rejected update ignored: the processor goes on to processFile
UpdateProcessingFailIgnored(r) ==
  /\ dbFaults < MaxDbFaults
  /\ dbFaults' = dbFaults + 1
  /\ r.pc = "update_processing"
  /\ processing' = Replace(r, [r EXCEPT !.pc = "process_file"])
  /\ UNCHANGED <<env, running, files, disk, pending, responses, jobs, wait,
                 terminalWrites, crashes, users, owner, http>>

\* the same update rejects: control passes to the catch block
UpdateProcessingFail(r) ==
  /\ dbFaults < MaxDbFaults
  /\ dbFaults' = dbFaults + 1
  /\ r.pc = "update_processing"
  /\ processing' = Replace(r, [r EXCEPT !.pc = "update_failed", !.error = "db"])
  /\ UNCHANGED <<env, running, files, disk, pending, responses, jobs, wait,
                 terminalWrites, crashes, users, owner, http>>

\* processFile(filePath): the value it resolves to for content B
ProcessFileHexLength(B) == ResultData(Sha256(B), 64)
ProcessFile(B) == ResultData(Sha256(B), Len(B))

\* processFile resolves
ProcessFileOk(r) ==
  /\ r.pc = "process_file"
  /\ disk[FileOf(r)].exists
  /\ processing' = Replace(r, [r EXCEPT !.pc = "update_processed",
                                        !.result = ProcessFile(disk[FileOf(r)].bytes)])
  /\ UNCHANGED <<env, running, files, disk, pending, responses, jobs, wait,
                 terminalWrites, dbFaults, crashes, users, owner, http>>

\* fs.readFile rejects: processFile throws 'File processing failed: ...'
ProcessFileFail(r) ==
  /\ r.pc = "process_file"
  /\ ~disk[FileOf(r)].exists
  /\ processing' = Replace(r, [r EXCEPT !.pc = "update_failed", !.error = "read"])
  /\ UNCHANGED <<env, running, files, disk, pending, responses, jobs, wait,
                 terminalWrites, dbFaults, crashes, users, owner, http>>

\* the same call left without its await: the processor goes on to return
\* before the write has reached the record
UpdateProcessedNotAwaited(r) ==
  /\ r.pc = "update_processed"
  /\ processing' = Replace(r, [r EXCEPT !.pc = "return"])
  /\ UNCHANGED <<env, running, files, disk, pending, responses, jobs, wait,
                 terminalWrites, dbFaults, crashes, users, owner, http>>

\* await prisma.file.update({ status: 'processed', extractedData }) resolves
UpdateProcessedOk(r) ==
  /\ r.pc = "update_processed"
  /\ files' = [files EXCEPT ![FileOf(r)] =
                 [status |-> "processed", extractedData |-> r.result]]
  /\ processing' = Replace(r, [r EXCEPT !.pc = "return"])
  /\ terminalWrites' = [terminalWrites EXCEPT ![FileOf(r)] = @ + 1]
  /\ UNCHANGED <<env, running, disk, pending, responses, jobs, wait, dbFaults,
                 crashes, users, owner, http>>

\* the same update rejects: control passes to the catch block
UpdateProcessedFail(r) ==
  /\ dbFaults < MaxDbFaults
  /\ dbFaults' = dbFaults + 1
  /\ r.pc = "update_processed"
  /\ processing' = Replace(r, [r EXCEPT !.pc = "update_failed", !.error = "db"])
  /\ UNCHANGED <<env, running, files, disk, pending, responses, jobs, wait,
                 terminalWrites, crashes, users, owner, http>>

\* the payload the catch block writes for the caught error e
FailedDataBlank(e) == ErrorData("")
FailedData(e) == ErrorData(ErrorMessage(e))

\* a catch block that rethrows without recording the failure
UpdateFailedSkipped(r) ==
  /\ r.pc = "update_failed"
  /\ processing' = Replace(r, [r EXCEPT !.pc = "throw"])
  /\ UNCHANGED <<env, running, files, disk, pending, responses, jobs, wait,
                 terminalWrites, dbFaults, crashes, users, owner, http>>

\* a catch block that records the failure only when no retry will follow
UpdateFailedOnlyLast(r) ==
  /\ r.pc = "update_failed"
  /\ files' = IF jobs[r.job].attemptsMade + 1 >= attempts
              THEN [files EXCEPT ![FileOf(r)] =
                      [status |-> "failed", extractedData |-> FailedData(r.error)]]
              ELSE files
  /\ processing' = Replace(r, [r EXCEPT !.pc = "throw"])
  /\ terminalWrites' = IF jobs[r.job].attemptsMade + 1 >= attempts
                       THEN [terminalWrites EXCEPT ![FileOf(r)] = @ + 1]
                       ELSE terminalWrites
  /\ UNCHANGED <<env, running, disk, pending, responses, jobs, wait, dbFaults,
                 crashes, users, owner, http>>

\* catch block: prisma.file.update({ status: 'failed', extractedData }) resolves
UpdateFailedOk(r) ==
  /\ r.pc = "update_failed"
  /\ files' = [files EXCEPT ![FileOf(r)] =
                 [status |-> "failed", extractedData |-> FailedData(r.error)]]
  /\ processing' = Replace(r, [r EXCEPT !.pc = "throw"])
  /\ terminalWrites' = [terminalWrites EXCEPT ![FileOf(r)] = @ + 1]
  /\ UNCHANGED <<env, running, disk, pending, responses, jobs, wait, dbFaults,
                 crashes, users, owner, http>>

\* what the inner catch leaves of the invocation when the failed-status
\* update itself rejects: updateError is logged, `error` is still rethrown
AfterUpdateErrorEscalate(r) == [r EXCEPT !.pc = "throw", !.updateError = TRUE,
                                         !.error = "db"]
AfterUpdateError(r) == [r EXCEPT !.pc = "throw", !.updateError = TRUE]

UpdateFailedFail(r) ==
  /\ dbFaults < MaxDbFaults
  /\ dbFaults' = dbFaults + 1
  /\ r.pc = "update_failed"
  /\ processing' = Replace(r, AfterUpdateError(r))
  /\ UNCHANGED <<env, running, files, disk, pending, responses, jobs, wait,
                 terminalWrites, crashes, users, owner, http>>

\* return result: the queue moves the job to completed
Return(r) ==
  /\ r.pc = "return"
  /\ jobs' = [jobs EXCEPT ![r.job].state = "completed",
                          ![r.job].attemptsMade = @ + 1]
  /\ processing' = Remove(r)
  /\ UNCHANGED <<env, running, files, disk, pending, responses, wait,
                 terminalWrites, dbFaults, crashes, users, owner, http>>

\* attempts: 3 -- a failed job is retried while the attempts made, this one
\* included, are fewer than `attempts`
ShouldRetryOffByOne(made) == made <= attempts
ShouldRetryAlways(made) == TRUE
ShouldRetry(made) == made < attempts

\* backoff { type: 'exponential', delay: 1000 }: delay of the retry after
\* `made` finished attempts
RetryDelayFixed(made) == backoffDelay
RetryDelay(made) == Backoff(made)

\* a settlement that fails the job once its attempts are used up and still
\* puts it back on the wait list
ThrowRequeuesExhausted(r) ==
  /\ r.pc = "throw"
  /\ LET made == jobs[r.job].attemptsMade + 1
     IN /\ jobs' = [jobs EXCEPT ![r.job] =
                      IF ShouldRetry(made)
                      THEN [@ EXCEPT !.state = "delayed", !.attemptsMade = made,
                                     !.delay = RetryDelay(made),
                                     !.lastBackoff = RetryDelay(made)]
                      ELSE [@ EXCEPT !.state = "failed", !.attemptsMade = made]]
        /\ wait' = IF ShouldRetry(made) THEN wait ELSE Append(wait, r.job)
  /\ processing' = Remove(r)
  /\ UNCHANGED <<env, running, files, disk, pending, responses,
                 terminalWrites, dbFaults, crashes, users, owner, http>>

\* throw error: the queue retries the job after a delay or fails it
Throw(r) ==
  /\ r.pc = "throw"
  /\ LET made == jobs[r.job].attemptsMade + 1
     IN jobs' = [jobs EXCEPT ![r.job] =
                   IF ShouldRetry(made)
                   THEN [@ EXCEPT !.state = "delayed", !.attemptsMade = made,
                                  !.delay = RetryDelay(made),
                                  !.lastBackoff = RetryDelay(made)]
                   ELSE [@ EXCEPT !.state = "failed", !.attemptsMade = made]]
  /\ processing' = Remove(r)
  /\ UNCHANGED <<env, running, files, disk, pending, responses, wait,
                 terminalWrites, dbFaults, crashes, users, owner, http>>

\* ---- delayed jobs ----
Delayed == {j \in JobIds : jobs[j].state = "delayed"}

\* the jobs of S in the order of their ids, as a list
RECURSIVE InOrder(_)
InOrder(S) ==
  IF S = {} THEN << >>
  ELSE LET m == CHOOSE x \in S : \A y \in S : x <= y
       IN <<m>> \o InOrder(S \ {m})

\* a delayed job is due once the time that has passed reaches its delay
DueNever(j, dt) == FALSE
DueAtOnce(j, dt) == TRUE
Due(j, dt) == jobs[j].delay <= dt

\* time passes until the earliest pending delay expires: the jobs then due
\* move to the wait list, the others have that much less to wait
Tick ==
  /\ Delayed # {}
  /\ LET dt == CHOOSE d \in {jobs[j].delay : j \in Delayed} :
                 \A j \in Delayed : d <= jobs[j].delay
         due == {j \in Delayed : Due(j, dt)}
     IN /\ jobs' = [j \in JobIds |->
                      IF j \in due THEN [jobs[j] EXCEPT !.state = "wait", !.delay = 0]
                      ELSE IF j \in Delayed THEN [jobs[j] EXCEPT !.delay = @ - dt]
                      ELSE jobs[j]]
        /\ wait' = wait \o InOrder(due)
  /\ UNCHANGED <<env, running, files, disk, pending, responses, processing,
                 terminalWrites, dbFaults, crashes, users, owner, http>>

Step(r) ==
  \/ UpdateProcessingOk(r) \/ UpdateProcessingFail(r)
  \/ ProcessFileOk(r) \/ ProcessFileFail(r)
  \/ UpdateProcessedOk(r) \/ UpdateProcessedFail(r)
  \/ UpdateFailedOk(r) \/ UpdateFailedFail(r)
  \/ Return(r) \/ Throw(r)

Next ==
  \/ Run
  \/ \E u \in users, B \in Contents, e \in BOOLEAN :
       UploadCreate(u, B, e) /\ UNCHANGED http
  \/ \E f \in FileIds : UploadEnqueue(f)
  \/ \E f \in FileIds : UploadEnqueueFail(f)
  \/ Claim
  \/ \E r \in Runs : UpdateProcessingOk(r)
  \/ \E r \in Runs : UpdateProcessingFail(r)
  \/ \E r \in Runs : ProcessFileOk(r)
  \/ \E r \in Runs : ProcessFileFail(r)
  \/ \E r \in Runs : UpdateProcessedOk(r)
  \/ \E r \in Runs : UpdateProcessedFail(r)
  \/ \E r \in Runs : UpdateFailedOk(r)
  \/ \E r \in Runs : UpdateFailedFail(r)
  \/ \E r \in Runs : Return(r)
  \/ \E r \in Runs : Throw(r)
  \/ Tick

Spec == Init /\ [][Next]_vars

\* ---- scheduling: the event loop runs every enabled continuation ----
Fairness ==
  /\ WF_vars(Claim)
  /\ WF_vars(\E r \in Runs : Step(r))
  /\ WF_vars(Tick)

SpecLive == Init /\ [][Next]_vars /\ Fairness

\* ---- worker process crash and the queue's stalled-job check ----

\* the worker process dies: its running invocations are gone, the jobs they
\* held stay active in the queue; the process is started again
Crash ==
  /\ crashes < MaxCrashes
  /\ processing # EmptyBag
  /\ processing' = EmptyBag
  /\ running' = (env # "test")
  /\ crashes' = crashes + 1
  /\ UNCHANGED <<env, files, disk, pending, responses, jobs, wait,
                 terminalWrites, dbFaults, users, owner, http>>

\* an active job whose lock is held by no invocation has stalled: it goes
\* back to the head of the wait list, or is failed once it has stalled more
\* than maxStalledCount times
StalledCheck(j) ==
  /\ running
  /\ jobs[j].state = "active"
  /\ RunsOf(j) = {}
  /\ IF jobs[j].stalledCounter < maxStalledCount
     THEN /\ jobs' = [jobs EXCEPT ![j].state = "wait", ![j].stalledCounter = @ + 1]
          /\ wait' = <<j>> \o wait
     ELSE /\ jobs' = [jobs EXCEPT ![j].state = "failed"]
          /\ wait' = wait
  /\ UNCHANGED <<env, running, files, disk, pending, responses, processing,
                 terminalWrites, dbFaults, crashes, users, owner, http>>

NextCrash ==
  \/ Next
  \/ Crash
  \/ \E j \in JobIds : StalledCheck(j)

SpecCrash == Init /\ [][NextCrash]_vars

\* ---- the HTTP routes of routes/files.js behind middleware/auth.js ----

\* POST /auth/register: the next user id is taken, a token is issued for it
Register(u) ==
  /\ u = Cardinality(users) + 1
  /\ u <= MaxUsers
  /\ users' = users \cup {u}
  /\ http' = [route |-> "register", header |-> NoHeader, id |-> u,
              status |-> 201, body |-> NoBody]
  /\ UNCHANGED <<env, running, files, disk, pending, responses, jobs, wait,
                 processing, terminalWrites, dbFaults, crashes, owner>>

\* authHeader && authHeader.startsWith('Bearer ')
HasBearer(h) == h.scheme = "bearer"

\* jwt.verify(token, JWT_SECRET) returns the payload (else it throws)
VerifiesUnchecked(h) == TRUE
Verifies(h) == h.verifies

\* prisma.user.findUnique({ id: decoded.userId }): the user's id, 0 for null
FindUser(h) == IF h.userId \in users THEN h.userId ELSE 0

\* the auth middleware: req.user.id when it calls next(), 0 when it answers 401
Auth(h) == IF HasBearer(h) /\ Verifies(h) THEN FindUser(h) ELSE 0

\* file.userId === req.user.id
OwnsAny(f, u) == TRUE
Owns(f, u) == owner[f] = u

\* what GET /files/:id answers with for file record f
FileInfo(f) == [id |-> f, status |-> files[f].status,
                extractedData |-> files[f].extractedData]

Reply(route, h, id, status, body) ==
  [route |-> route, header |-> h, id |-> id, status |-> status, body |-> body]

\* POST /files/upload stopped by the auth middleware: 401, the handler and
\* the multipart parser never run
UploadDenied(h) ==
  /\ Auth(h) = 0
  /\ http' = Reply("upload", h, 0, 401, NoBody)
  /\ UNCHANGED <<env, running, files, disk, pending, responses, jobs, wait,
                 processing, terminalWrites, dbFaults, crashes, users, owner>>

\* POST /files/upload without a file part: 400
UploadNoFile(h) ==
  /\ Auth(h) # 0
  /\ http' = Reply("upload", h, 0, 400, NoBody)
  /\ UNCHANGED <<env, running, files, disk, pending, responses, jobs, wait,
                 processing, terminalWrites, dbFaults, crashes, users, owner>>

\* POST /files/upload passing the middleware: the handler creates the record
\* for req.user; its answer follows queue.add (UploadEnqueue, UploadEnqueueFail)
UploadAccepted(h, B) ==
  /\ Auth(h) # 0
  /\ UploadCreate(Auth(h), B, TRUE)
  /\ http' = Reply("upload", h, Len(files) + 1, 0, NoBody)

\* GET /files/:id with header h; id 0 stands for an id that is not a number
GetFileReply(h, id) ==
  IF Auth(h) = 0 THEN Reply("get", h, id, 401, NoBody)
  ELSE IF id = 0 THEN Reply("get", h, id, 500, NoBody)
  ELSE IF id \notin FileIds THEN Reply("get", h, id, 404, NoBody)
  ELSE IF ~Owns(id, Auth(h)) THEN Reply("get", h, id, 403, NoBody)
  ELSE Reply("get", h, id, 200, FileInfo(id))

GetFile(h, id) ==
  /\ http' = GetFileReply(h, id)
  /\ UNCHANGED <<env, running, files, disk, pending, responses, jobs, wait,
                 processing, terminalWrites, dbFaults, crashes, users, owner>>

NextHttp ==
  \/ \E u \in 1..MaxUsers : Register(u)
  \/ \E h \in Headers : UploadDenied(h)
  \/ \E h \in Headers : UploadNoFile(h)
  \/ \E h \in Headers, B \in Contents : UploadAccepted(h, B)
  \/ \E f \in FileIds : UploadEnqueue(f)
  \/ \E f \in FileIds : UploadEnqueueFail(f)
  \/ \E h \in Headers, id \in 0..(MaxFiles + 1) : GetFile(h, id)

SpecHttp == Init /\ [][NextHttp]_vars

\* ---- processFile over varied contents ----

\* byte values and the contents a file may hold, up to MaxLen bytes
Bytes == {0, 255}
AllContents == UNION {[1..n -> Bytes] : n \in 0..MaxLen}

\* uploads of readable files of any content, processed without faults
NextDigest ==
  \/ Run
  \/ \E u \in users, B \in AllContents :
       UploadCreate(u, B, TRUE) /\ UNCHANGED http
  \/ \E f \in FileIds : UploadEnqueue(f)
  \/ Claim
  \/ \E r \in Runs : UpdateProcessingOk(r)
  \/ \E r \in Runs : ProcessFileOk(r)
  \/ \E r \in Runs : UpdateProcessedOk(r)
  \/ \E r \in Runs : Return(r)

SpecDigest == Init /\ [][NextDigest]_vars

\* ======================= properties =======================

Terminal(j) == jobs[j].state \in {"completed", "failed"}
HasRun(j) == RunsOf(j) # {}
FileOfJob(j) == jobs[j].fileId
InWait(j) == \E i \in 1..Len(wait) : wait[i] = j
\* the job's content locator never resolves
NeverResolves(j) == ~disk[FileOfJob(j)].exists

\* C1: in every reachable state the number of jobs in the active state is at
\* most the worker's concurrency (1 under NODE_ENV = test, 5 otherwise).
C1_ActiveWithinCap == Cardinality(ActiveJobs) <= concurrency

\* the cap is reached while another job is waiting for a free executor
C1_Witness ==
  /\ Cardinality(ActiveJobs) = concurrency
  /\ wait # << >>

\* C2: once a file's status is processed or failed, no later step changes
\* the file's status or payload.
C2_TerminalAbsorbing ==
  [][\A f \in FileIds :
       files[f].status \in {"processed", "failed"} => files'[f] = files[f]]_vars

\* C3: a job is held by at most one processor invocation at a time; a held
\* job is active and is not in the wait list, so no other claim returns it.
C3_SingleHolder ==
  \A j \in JobIds :
    /\ Holders(j) <= 1
    /\ HasRun(j) => jobs[j].state = "active" /\ ~InWait(j)

\* two executors hold two different jobs at once
C3_Witness ==
  \E j, k \in JobIds : j # k /\ Holders(j) = 1 /\ Holders(k) = 1

\* C4 as stated: a job whose locator never resolves ends failed after
\* exactly `attempts` attempts with its file's status failed.
C4_Original ==
  \A j \in JobIds :
    (NeverResolves(j) /\ jobs[j].state = "failed") =>
      /\ jobs[j].attemptsMade = attempts
      /\ files[FileOfJob(j)].status = "failed"

\* what holds in every state of a job whose locator never resolves
C4_NeverResolvesInv ==
  \A j \in JobIds :
    NeverResolves(j) =>
      /\ jobs[j].state # "completed"
      /\ files[FileOfJob(j)].status \in {"uploaded", "processing", "failed"}
      /\ jobs[j].attemptsStarted <= attempts
      /\ jobs[j].state = "failed" =>
           jobs[j].attemptsMade = attempts /\ jobs[j].attemptsStarted = attempts
      /\ jobs[j].state # "failed" => jobs[j].attemptsMade < attempts

\* C4 amended: a job whose locator never resolves never completes and its
\* file is never processed (the status moves among uploaded, processing and
\* failed); it is failed after exactly `attempts` attempts, no fewer and no
\* more; and at that point the file's status is failed provided the last
\* attempt's failed-status write succeeded.
C4_FailsAfterMaxAttempts ==
  /\ []C4_NeverResolvesInv
  /\ [][\A j \in JobIds :
          (/\ NeverResolves(j)
           /\ jobs[j].state = "active"
           /\ jobs'[j].state = "failed"
           /\ ~RunOf(j).updateError)
            => files[FileOfJob(j)].status = "failed"]_vars

\* a job whose file is missing has failed after three attempts, file failed
C4_Witness ==
  \E j \in JobIds :
    /\ NeverResolves(j)
    /\ jobs[j].state = "failed"
    /\ jobs[j].attemptsMade = attempts
    /\ files[FileOfJob(j)].status = "failed"

\* the step that settles a failed attempt of job j
Settles(j) ==
  /\ HasRun(j)
  /\ RunOf(j).pc = "throw"
  /\ jobs[j].state = "active"
  /\ jobs'[j].state # "active"

\* the retry decision after a failed attempt follows the attempt count alone
RetryByCount(j) ==
  IF jobs'[j].attemptsMade < attempts
  THEN jobs'[j].state = "delayed" /\ jobs'[j].delay > 0
  ELSE jobs'[j].state = "failed"

\* the file holds status failed with the message of the error of job j's run
FileHoldsLastError(j) ==
  files[FileOfJob(j)] =
    [status |-> "failed",
     extractedData |-> ErrorData(IF RunOf(j).error = "read"
                                 THEN "File processing failed: ENOENT"
                                 ELSE "Record update failed")]

\* C5 as stated: after a failed attempt the job is requeued with a delay if
\* the attempts made are fewer than `attempts`, else it is failed and the
\* file is left failed with the last attempt's error message.
C5_Original ==
  [][\A j \in JobIds :
       Settles(j) =>
         /\ jobs'[j].attemptsMade = jobs[j].attemptsMade + 1
         /\ RetryByCount(j)
         /\ jobs'[j].state = "failed" => FileHoldsLastError(j)]_vars

\* C5 amended: the same, the file being left failed with the last attempt's
\* message provided that attempt's failed-status write succeeded; and no step
\* changes the file of a failed job.
C5_RetryDecision ==
  /\ [][\A j \in JobIds :
          Settles(j) =>
            /\ jobs'[j].attemptsMade = jobs[j].attemptsMade + 1
            /\ RetryByCount(j)
            /\ (jobs'[j].state = "failed" /\ ~RunOf(j).updateError)
                 => FileHoldsLastError(j)]_vars
  /\ [][\A j \in JobIds :
          jobs[j].state = "failed" =>
            /\ jobs'[j] = jobs[j]
            /\ files'[FileOfJob(j)] = files[FileOfJob(j)]]_vars

\* a job finalized as failed whose file holds failed and an error message,
\* next to a job requeued with a delay
C5_Witness ==
  /\ \E j \in JobIds :
       /\ jobs[j].state = "failed"
       /\ files[FileOfJob(j)].status = "failed"
       /\ files[FileOfJob(j)].extractedData.error # ""
  /\ \E k \in JobIds : jobs[k].state = "delayed" /\ jobs[k].delay > 0

\* C6: the delay of each requeue of a job is greater than the delay of its
\* previous requeue (none before the first), at least the base delay, and the
\* same for every job requeued after the same number of attempts.
C6_BackoffStrictlyIncreases ==
  [][\A j \in JobIds :
       (jobs[j].state = "active" /\ jobs'[j].state = "delayed") =>
         /\ jobs'[j].delay > jobs[j].lastBackoff
         /\ jobs'[j].delay >= backoffDelay
         /\ jobs'[j].lastBackoff = jobs'[j].delay
         /\ \A k \in JobIds :
              (k # j /\ jobs[k].attemptsMade = jobs'[j].attemptsMade
                     /\ jobs[k].state \in {"delayed", "wait", "active"})
                => jobs[k].lastBackoff = jobs'[j].delay]_vars

\* a job requeued for its third attempt with the doubled delay, while another
\* job is delayed after its first failure
C6_Witness ==
  \E j, k \in JobIds :
    /\ jobs[j].state = "delayed" /\ jobs[j].attemptsMade = 2
    /\ jobs[j].delay = 2 * backoffDelay
    /\ jobs[k].attemptsMade = 1 /\ jobs[k].lastBackoff = backoffDelay

\* C7: a result payload is present only when status = processed, an error
\* payload only when status = failed, and none while uploaded or processing.
C7_PayloadMatchesStatus ==
  \A f \in FileIds :
    /\ files[f].extractedData.kind = "result" => files[f].status = "processed"
    /\ files[f].extractedData.kind = "error" => files[f].status = "failed"
    /\ files[f].status \in {"uploaded", "processing"} =>
         files[f].extractedData.kind = "null"

\* C8: with the worker running and fair scheduling, every submitted job
\* eventually reaches completed or failed.
C8_EveryJobTerminates ==
  \A j \in 1..MaxFiles :
    [](((j \in JobIds) /\ running) => <>((j \in JobIds) /\ Terminal(j)))

\* every job submitted has ended, one completed and one failed
C8_Witness ==
  /\ Len(jobs) >= 2
  /\ \A j \in JobIds : Terminal(j)
  /\ \E j \in JobIds : jobs[j].state = "completed"
  /\ \E j \in JobIds : jobs[j].state = "failed"

\* C9: a job reclaimed after a worker crash and then completed, no attempt
\* of it having failed and no status write having been rejected, has written
\* a terminal status to its file exactly once.
C9_OneTerminalWrite ==
  \A j \in JobIds :
    (/\ jobs[j].stalledCounter > 0
     /\ jobs[j].state = "completed"
     /\ jobs[j].attemptsMade = 1
     /\ dbFaults = 0)
      => terminalWrites[FileOfJob(j)] = 1

\* C10: when the failed-status write of a failed attempt is itself rejected,
\* the invocation goes on to rethrow the error it caught, unchanged, and
\* nothing else changes; the rethrow then settles the job by the retry
\* decision and frees the executor.
C10_WriteFailureSwallowed ==
  /\ [](\A r \in Runs : r.pc = "throw" => r.error # "none")
  /\ [][\A j \in JobIds :
          (/\ HasRun(j)
           /\ RunOf(j).pc = "update_failed"
           /\ dbFaults' # dbFaults
           /\ RunsOf(j)' # RunsOf(j))
            => /\ RunsOf(j)' = {[RunOf(j) EXCEPT !.pc = "throw",
                                                 !.updateError = TRUE]}
               /\ jobs' = jobs
               /\ files' = files]_vars
  /\ [][\A j \in JobIds :
          (HasRun(j) /\ RunOf(j).pc = "throw" /\ RunOf(j).updateError
             /\ RunsOf(j)' # RunsOf(j))
            => /\ RunsOf(j)' = {}
               /\ BagCardinality(processing') = BagCardinality(processing) - 1
               /\ jobs'[j].state \in {"delayed", "failed"}
               /\ jobs'[j].attemptsMade = jobs[j].attemptsMade + 1]_vars

\* a processing error is about to be rethrown after its status write failed
C10_Witness ==
  \E r \in Runs : r.pc = "throw" /\ r.updateError /\ r.error = "read"

\* C11: a job is completed only after its attempt has written processed and
\* the result to the file: an invocation about to return, and every completed
\* job, has its file at status processed with the result of that attempt.
C11_CompletedAfterProcessedWrite ==
  /\ \A r \in Runs :
       r.pc = "return" =>
         files[FileOf(r)] = [status |-> "processed", extractedData |-> r.result]
  /\ \A j \in JobIds :
       jobs[j].state = "completed" =>
         /\ files[FileOfJob(j)].status = "processed"
         /\ files[FileOfJob(j)].extractedData =
              ResultData(Sha256(disk[FileOfJob(j)].bytes),
                         Len(disk[FileOfJob(j)].bytes))
         /\ terminalWrites[FileOfJob(j)] >= 1

\* a job completed at its first attempt, its file processed
C11_Witness ==
  \E j \in JobIds :
    /\ jobs[j].state = "completed"
    /\ jobs[j].attemptsMade = 1
    /\ files[FileOfJob(j)].status = "processed"

\* the changes of a job's queue state that the lifecycle allows; delayed and
\* wait are the two halves of waiting (with and without a pending delay)
AllowedMoves ==
  {<<"wait", "active">>, <<"active", "completed">>, <<"active", "delayed">>,
   <<"active", "failed">>, <<"delayed", "wait">>}

\* C12: a job's state changes only along waiting -> active, active ->
\* completed, active -> waiting (requeued with a delay) and active -> failed;
\* a submitted job starts waiting; a completed or failed job never changes
\* again, is in no wait list and is held by no invocation.
C12_JobLifecycle ==
  /\ [](\A j \in JobIds : Terminal(j) => ~HasRun(j) /\ ~InWait(j))
  /\ [][\A j \in JobIds :
          /\ jobs'[j].state # jobs[j].state =>
               <<jobs[j].state, jobs'[j].state>> \in AllowedMoves
          /\ (jobs[j].state = "active" /\ jobs'[j].state = "delayed") =>
               jobs'[j].delay > 0
          /\ Terminal(j) => jobs'[j] = jobs[j]]_vars
  /\ [][\A n \in (1..Len(jobs')) \ JobIds : jobs'[n].state = "wait"]_vars

\* every move of the lifecycle has happened: one job completed at a retry,
\* another failed
C12_Witness ==
  \E j, k \in JobIds :
    /\ jobs[j].state = "completed" /\ jobs[j].attemptsMade > 1
    /\ jobs[k].state = "failed"

\* job j has never been requeued with a delay
NeverRequeued(j) == jobs[j].attemptsMade = 0 /\ jobs[j].lastBackoff = 0

\* C13: job ids follow submission order; if a was submitted before b and
\* neither has been requeued with a delay, no step claims b while a is
\* still waiting.
C13_FifoAmongUndelayed ==
  [][\A a, b \in JobIds :
       (/\ a < b
        /\ NeverRequeued(a) /\ NeverRequeued(b)
        /\ jobs[a].state = "wait"
        /\ jobs[b].state = "wait")
         => ~(jobs'[b].state = "active")]_vars

\* the earlier of two fresh jobs has been claimed, the later still waits
\* although an executor is free
C13_Witness ==
  \E a, b \in JobIds :
    /\ a < b
    /\ jobs[a].state = "active" /\ jobs[a].attemptsStarted = 1
    /\ jobs[b].state = "wait" /\ NeverRequeued(b)
    /\ running /\ CanFetch

\* C14: a job requeued after a failed attempt has a positive delay left, is
\* in no wait list and is held by no invocation; the only step that changes
\* such a job is the passing of time, which leaves it delayed with less to
\* wait or, when no delayed job has less to wait than it, moves it to the
\* wait list; no step makes a delayed job active.
C14_NoClaimBeforeDelayElapsed ==
  /\ [](\A j \in JobIds :
         jobs[j].state = "delayed" =>
           jobs[j].delay > 0 /\ ~InWait(j) /\ ~HasRun(j))
  /\ [][\A j \in JobIds :
          (jobs[j].state = "delayed" /\ jobs'[j] # jobs[j]) =>
            \/ /\ jobs'[j].state = "delayed"
               /\ jobs'[j].delay < jobs[j].delay
            \/ /\ jobs'[j].state = "wait"
               /\ \A k \in Delayed : jobs[k].delay >= jobs[j].delay
               /\ \A k \in Delayed :
                    jobs'[k].state = "delayed" =>
                      jobs'[k].delay = jobs[k].delay - jobs[j].delay]_vars

\* a requeued job waits out its delay while the worker is idle and no other
\* job is waiting
C14_Witness ==
  \E j \in JobIds :
    /\ jobs[j].state = "delayed" /\ jobs[j].delay > 0
    /\ running
    /\ processing = EmptyBag
    /\ wait = << >>

\* C15: every job references a file record that exists, and the record of a
\* job no attempt of which has started still reads uploaded; every running
\* invocation works on an existing record; a record whose status has left
\* uploaded has a job that was claimed; a request between record creation
\* and submission has its record and no job yet.
C15_RecordBeforeJob ==
  /\ \A j \in JobIds :
       /\ FileOfJob(j) \in FileIds
       /\ jobs[j].attemptsStarted = 0 => files[FileOfJob(j)].status = "uploaded"
  /\ \A r \in Runs : r.job \in JobIds /\ FileOf(r) \in FileIds
  /\ \A f \in FileIds :
       files[f].status # "uploaded" =>
         \E j \in JobIds : FileOfJob(j) = f /\ jobs[j].attemptsStarted >= 1
  /\ \A f \in pending :
       /\ f \in FileIds
       /\ files[f].status = "uploaded"
       /\ ~\E j \in JobIds : FileOfJob(j) = f

\* one request has created its record and not yet submitted the job while
\* the job of another is being processed
C15_Witness ==
  /\ \E f \in pending : files[f].status = "uploaded"
  /\ \E r \in Runs : files[FileOf(r)].status = "processing"

\* header h carries a bearer token that verifies and names a registered user
ValidAuth(h) == h.scheme = "bearer" /\ h.verifies /\ h.userId \in users

\* C16: GET /files/:id answers with file data only when the requester is
\* authenticated and owns the file (200, the data of that file); an
\* authenticated user who does not own the file gets 403 without file data,
\* a request without a valid bearer token gets 401 without file data.
C16_OwnerOnlyRead ==
  /\ [](http.body # NoBody =>
          /\ http.route = "get" /\ http.status = 200
          /\ http.id \in FileIds
          /\ http.body.id = http.id
          /\ owner[http.id] = http.header.userId)
  /\ [][(http' # http /\ http'.route = "get") =>
          /\ ~ValidAuth(http'.header) =>
               http'.status = 401 /\ http'.body = NoBody
          /\ (/\ ValidAuth(http'.header)
              /\ http'.id \in FileIds
              /\ owner[http'.id] # http'.header.userId) =>
               http'.status = 403 /\ http'.body = NoBody
          /\ (/\ ValidAuth(http'.header)
              /\ http'.id \in FileIds
              /\ owner[http'.id] = http'.header.userId) =>
               http'.status = 200 /\ http'.body = FileInfo(http'.id)]_vars

\* a registered user has asked for another user's file and got 403
C16_Witness ==
  /\ http.route = "get"
  /\ ValidAuth(http.header)
  /\ http.id \in FileIds
  /\ owner[http.id] # http.header.userId
  /\ http.status = 403
  /\ http.body = NoBody

\* C17: an upload request without valid authentication is answered 401 and
\* changes neither the file records nor the queue nor anything else; a file
\* record is created only by an upload request with valid authentication,
\* for the user it authenticates; and every job is for such a record.
C17_UnauthenticatedUploadNoEffect ==
  /\ [][(http' # http /\ http'.route = "upload" /\ ~ValidAuth(http'.header)) =>
          /\ http'.status = 401
          /\ files' = files /\ owner' = owner /\ disk' = disk
          /\ pending' = pending /\ responses' = responses
          /\ jobs' = jobs /\ wait' = wait]_vars
  /\ [][Len(files') # Len(files) =>
          /\ http'.route = "upload"
          /\ ValidAuth(http'.header)
          /\ Len(files') = Len(files) + 1
          /\ owner'[Len(files')] = http'.header.userId]_vars
  /\ [](\A j \in JobIds : FileOfJob(j) \in FileIds /\ owner[FileOfJob(j)] \in users)

\* an upload with a token that does not verify was answered 401 after one
\* authenticated upload: one record and one job, as before
C17_Witness ==
  /\ http.route = "upload"
  /\ http.status = 401
  /\ http.header.scheme = "bearer" /\ ~http.header.verifies
  /\ http.header.userId \in users
  /\ Len(files) = 1
  /\ Len(jobs) = 1

\* the result an invocation holds or a record stores is that of content B
IsResultOf(d, B) ==
  d.kind = "result" /\ d.hash = Sha256(B) /\ d.size = Len(B)

C19_Original ==
  [][\A j \in JobIds : Settles(j) => FileHoldsLastError(j)]_vars

\* C19 amended: an invocation reaches its rethrow only through the catch
\* block's failed-status write, at every attempt: either the write is
\* rejected and nothing is written, or the file then reads failed with the
\* message of the error caught; so when the attempt is settled the file
\* reads failed with that message unless the write was rejected.
C19_FailedWrittenEveryAttempt ==
  /\ [][processing' # processing => \A j \in JobIds :
          (HasRun(j) /\ RunsOf(j)' # RunsOf(j) /\ RunsOf(j)' # {}
             /\ RunOf(j)'.pc = "throw") =>
            /\ RunOf(j).pc = "update_failed"
            /\ RunOf(j).error # "none"
            /\ IF dbFaults' # dbFaults
               THEN files' = files /\ RunOf(j)'.updateError
               ELSE /\ ~RunOf(j)'.updateError
                    /\ files'[FileOfJob(j)] =
                         [status |-> "failed",
                          extractedData |->
                            ErrorData(IF RunOf(j).error = "read"
                                      THEN "File processing failed: ENOENT"
                                      ELSE "Record update failed")]]_vars
  /\ [][jobs' # jobs => \A j \in JobIds :
          (jobs[j].state = "active" /\ jobs'[j].state \in {"delayed", "failed"}) =>
            Settles(j) /\ (RunOf(j).updateError \/ FileHoldsLastError(j))]_vars

\* a job completed at its second attempt after its first attempt wrote
\* failed: the file was written failed, then processed
C19_Witness ==
  \E j \in JobIds :
    /\ jobs[j].state = "completed"
    /\ jobs[j].attemptsMade = 2
    /\ terminalWrites[FileOfJob(j)] = 2
    /\ files[FileOfJob(j)].status = "processed"

\* job j's invocation takes a step
RunMoves(j) == HasRun(j) /\ RunsOf(j)' # RunsOf(j) /\ RunsOf(j)' # {}

\* C20: an invocation is at processFile only while its file reads
\* processing, and gets there only by the step in which this attempt's
\* write of processing succeeds; processFile's outcome (a result, or a read
\* error) arises only in an invocation that is at processFile; when the
\* write of processing is rejected the file is left as it was and the
\* invocation goes, without result, to the catch block's failed-status
\* write and from there to the rethrow that settles the attempt.
C20_ProcessingBeforeProcessFile ==
  /\ [](\A r \in Runs :
         /\ r.pc = "process_file" => files[FileOf(r)].status = "processing"
         /\ r.pc = "update_processing" => r.result = NoData /\ r.error = "none")
  /\ [][processing' # processing => \A j \in JobIds :
          RunMoves(j) =>
            /\ RunOf(j)'.pc = "process_file" =>
                 /\ RunOf(j).pc = "update_processing"
                 /\ dbFaults' = dbFaults
                 /\ files'[FileOfJob(j)].status = "processing"
            /\ (RunOf(j).pc = "update_processing" /\ dbFaults' # dbFaults) =>
                 /\ RunOf(j)' = [RunOf(j) EXCEPT !.pc = "update_failed",
                                                 !.error = "db"]
                 /\ files' = files
            /\ (RunOf(j)'.result # RunOf(j).result
                   \/ (RunOf(j)'.error = "read" /\ RunOf(j).error # "read")) =>
                 RunOf(j).pc = "process_file"
            /\ RunOf(j).pc = "update_failed" => RunOf(j)'.pc = "throw"]_vars
  /\ [][processing' # processing => \A j \in JobIds :
          (HasRun(j) /\ RunOf(j).pc = "throw" /\ RunsOf(j)' # RunsOf(j)) =>
            /\ RunsOf(j)' = {}
            /\ jobs'[j].state \in {"delayed", "failed"}]_vars

\* a first attempt whose write of processing was rejected: the file still
\* reads uploaded, processFile was not run, the failed-status write is next
C20_Witness ==
  \E r \in Runs :
    /\ r.pc = "update_failed"
    /\ r.error = "db"
    /\ r.result = NoData
    /\ files[FileOf(r)].status = "uploaded"
    /\ jobs[r.job].attemptsStarted = 1

\* C21: for every job the attempts started and the attempts finished stay
\* between 0 and `attempts`, the finished never exceed the started, and an
\* attempt is started and not finished exactly while an invocation holds the
\* job; a job is submitted with both counts 0; the count of started attempts
\* changes only by one, in the step that claims the job, and every claim
\* counts; the count of finished attempts changes only by one, in the step
\* that ends the invocation.
C21_AttemptsBounded ==
  /\ [](\A j \in JobIds :
         /\ 0 <= jobs[j].attemptsMade
         /\ jobs[j].attemptsMade <= jobs[j].attemptsStarted
         /\ jobs[j].attemptsStarted <= attempts
         /\ jobs[j].attemptsStarted - jobs[j].attemptsMade = Holders(j))
  /\ [][\A n \in (1..Len(jobs')) \ JobIds :
          jobs'[n].attemptsStarted = 0 /\ jobs'[n].attemptsMade = 0]_vars
  /\ [][\A j \in JobIds :
          /\ (jobs'[j].attemptsStarted # jobs[j].attemptsStarted
                \/ (jobs[j].state = "wait" /\ jobs'[j].state = "active")) =>
               /\ jobs'[j].attemptsStarted = jobs[j].attemptsStarted + 1
               /\ jobs[j].state = "wait" /\ jobs'[j].state = "active"
               /\ jobs'[j].attemptsMade = jobs[j].attemptsMade
          /\ jobs'[j].attemptsMade # jobs[j].attemptsMade =>
               /\ jobs'[j].attemptsMade = jobs[j].attemptsMade + 1
               /\ jobs[j].state = "active" /\ jobs'[j].state # "active"]_vars

\* a job has used up its three attempts in a run in which a status write
\* was rejected as well
C21_Witness ==
  \E j \in JobIds :
    /\ jobs[j].state = "failed"
    /\ jobs[j].attemptsStarted = attempts
    /\ jobs[j].attemptsMade = attempts
    /\ dbFaults > 0

\* C22: a completed job's file reads processed and holds a result; in the
\* step that fails a job whose last failed-status write was not rejected the
\* file reads failed and holds an error message; no step changes the file of
\* a completed or failed job; and while no status write has been rejected,
\* the file of a completed or failed job reads processed or failed, never
\* uploaded or processing.
C22_TerminalStatesAgree ==
  /\ [](\A j \in JobIds :
         /\ jobs[j].state = "completed" =>
              /\ files[FileOfJob(j)].status = "processed"
              /\ files[FileOfJob(j)].extractedData.kind = "result"
         /\ (jobs[j].state = "failed" /\ dbFaults = 0) =>
              /\ files[FileOfJob(j)].status = "failed"
              /\ files[FileOfJob(j)].extractedData.kind = "error"
         /\ (Terminal(j) /\ dbFaults = 0) =>
              files[FileOfJob(j)].status \notin {"uploaded", "processing"})
  /\ [][\A j \in JobIds :
          /\ (/\ jobs[j].state = "active"
              /\ jobs'[j].state = "failed"
              /\ ~RunOf(j).updateError) =>
               /\ files'[FileOfJob(j)].status = "failed"
               /\ files'[FileOfJob(j)].extractedData.kind = "error"
               /\ files'[FileOfJob(j)].extractedData.error # ""
          /\ Terminal(j) => files'[FileOfJob(j)] = files[FileOfJob(j)]]_vars
  /\ [](\A j, k \in JobIds : FileOfJob(j) = FileOfJob(k) => j = k)

\* every status write succeeded; one job is completed with its file
\* processed, the other failed with its file failed
C22_Witness ==
  /\ dbFaults = 0
  /\ \E j, k \in JobIds :
       /\ jobs[j].state = "completed"
       /\ files[FileOfJob(j)].status = "processed"
       /\ jobs[k].state = "failed"
       /\ files[FileOfJob(k)].status = "failed"

\* the jobs that reference file record f
JobsOf(f) == {j \in JobIds : FileOfJob(j) = f}

\* C23: each upload request that reached the handler has exactly one file
\* record; a request answered 201 has exactly one job referencing its
\* record; a request answered 500 because queue.add failed has none, and its
\* record stays, reading uploaded without payload, whatever the worker does;
\* a request not yet answered has no job; every job belongs to a request
\* answered 201. The step that answers 201 adds exactly one job, for a
\* record that reads uploaded, and no record; the step that answers 500
\* changes neither records nor jobs.
C23_UploadAnswerMatchesEffect ==
  /\ [](/\ Len(responses) = Len(files)
        /\ \A f \in FileIds :
             /\ responses[f] \in {0, 201, 500}
             /\ responses[f] = 0 <=> f \in pending
             /\ responses[f] = 201 => Cardinality(JobsOf(f)) = 1
             /\ responses[f] # 201 =>
                  /\ JobsOf(f) = {}
                  /\ files[f] = [status |-> "uploaded", extractedData |-> NoData])
  /\ [][\A f \in FileIds :
          responses'[f] # responses[f] =>
            /\ responses[f] = 0
            /\ files' = files
            /\ files[f].status = "uploaded"
            /\ IF responses'[f] = 201
               THEN /\ Len(jobs') = Len(jobs) + 1
                    /\ jobs'[Len(jobs')].fileId = f
                    /\ jobs'[Len(jobs')].state = "wait"
               ELSE /\ responses'[f] = 500
                    /\ jobs' = jobs /\ wait' = wait]_vars
  /\ [][Len(files') # Len(files) =>
          /\ Len(files') = Len(files) + 1
          /\ files'[Len(files')].status = "uploaded"
          /\ responses'[Len(files')] = 0
          /\ jobs' = jobs]_vars

\* one upload was answered 201 and its job has ended; another was answered
\* 500: its record still reads uploaded and no job references it
C23_Witness ==
  \E f, g \in FileIds :
    /\ responses[f] = 201
    /\ \A j \in JobsOf(f) : Terminal(j)
    /\ responses[g] = 500
    /\ files[g].status = "uploaded"
    /\ JobsOf(g) = {}
    /\ running

====
